---- MODULE Spec2Model ----
(***************************************************************************)
(* Card-zone accounting engine and probability calculator of BlackJ.py     *)
(* (classes CardZone and GameState).                                       *)
(*                                                                         *)
(* A Python str is modelled as a sequence of one-character strings, so     *)
(* that upper(), lower(), strip(), replace() and int() are computed        *)
(* character by character as Python computes them.  A CardZone's `cards`   *)
(* (a defaultdict(int)) is modelled as a function whose DOMAIN is the      *)
(* dict's key set; reading a missing key inserts it with value 0, as       *)
(* defaultdict.__getitem__ does.  The insertion order of a dict is not     *)
(* modelled: dict equality, sums over the values and the hand total do not *)
(* depend on it.                                                           *)
(***************************************************************************)
EXTENDS Integers, Sequences, FiniteSets, TLC

\* ------------------------------------------------------------------ bounds
\* add_player is called while next_player_number <= MaxPlayers
MaxPlayers == 1
\* early in the game a card leaves the deck, or a face-down unit is dealt,
\* while fewer than MaxOut cards are out: the cards gone from the deck, the
\* face-down units outstanding and the UNKNOWN units in the discard pile;
\* in the end game fewer than MaxOut face-down and UNKNOWN units exist
MaxOut == 2
\* the hands handed to calculate_hand_total on its own hold at most MaxHand
\* cards
MaxHand == 3

\* ------------------------------------------------------- string literals
DEALER == <<"d","e","a","l","e","r">>
PLAYER == <<"p","l","a","y","e","r">>
FACEDOWN == <<"F","A","C","E","D","O","W","N">>
UNKNOWN == <<"U","N","K","N","O","W","N">>
\* the list literal of initialize_deck
RANKS == << <<"2">>, <<"3">>, <<"4">>, <<"5">>, <<"6">>, <<"7">>, <<"8">>,
            <<"9">>, <<"1","0">>, <<"J">>, <<"Q">>, <<"K">>, <<"A">> >>
\* the count initialize_deck gives every rank
COPIES == 4

RankSet == {RANKS[i] : i \in 1..Len(RANKS)}

\* --------------------------------------------------- Python str methods
LOWERCASE == <<"a","b","c","d","e","f","g","h","i","j","k","l","m",
               "n","o","p","q","r","s","t","u","v","w","x","y","z">>
UPPERCASE == <<"A","B","C","D","E","F","G","H","I","J","K","L","M",
               "N","O","P","Q","R","S","T","U","V","W","X","Y","Z">>
DIGITS == <<"0","1","2","3","4","5","6","7","8","9">>

IndexIn(seq, ch) == CHOOSE i \in 1..Len(seq) : seq[i] = ch

LowerSet == {LOWERCASE[i] : i \in 1..Len(LOWERCASE)}
UpperSet == {UPPERCASE[i] : i \in 1..Len(UPPERCASE)}
DigitSet == {DIGITS[i] : i \in 1..Len(DIGITS)}
\* the character tables, computed once
UpperOf == [ch \in LowerSet |-> UPPERCASE[IndexIn(LOWERCASE, ch)]]
LowerOf == [ch \in UpperSet |-> LOWERCASE[IndexIn(UPPERCASE, ch)]]
DigitOf == [ch \in DigitSet |-> IndexIn(DIGITS, ch) - 1]

\* str.upper()
upper(s) ==
  [i \in 1..Len(s) |->
     IF s[i] \in LowerSet THEN UpperOf[s[i]] ELSE s[i]]

\* str.lower()
lower(s) ==
  [i \in 1..Len(s) |->
     IF s[i] \in UpperSet THEN LowerOf[s[i]] ELSE s[i]]

RECURSIVE lstrip(_)
lstrip(s) == IF s # << >> /\ Head(s) = " " THEN lstrip(Tail(s)) ELSE s

RECURSIVE rstrip(_)
rstrip(s) ==
  IF s # << >> /\ s[Len(s)] = " " THEN rstrip(SubSeq(s, 1, Len(s) - 1)) ELSE s

\* str.strip(): leading and trailing whitespace removed
strip(s) == rstrip(lstrip(s))

\* str.replace(old, ""): every non-overlapping occurrence, left to right
RECURSIVE replace_with_empty(_, _)
replace_with_empty(s, old) ==
  IF Len(s) < Len(old) THEN s
  ELSE IF SubSeq(s, 1, Len(old)) = old
       THEN replace_with_empty(SubSeq(s, Len(old) + 1, Len(s)), old)
       ELSE <<Head(s)>> \o replace_with_empty(Tail(s), old)

RECURSIVE DigitsValue(_, _)
DigitsValue(s, acc) ==
  IF s = << >> THEN acc
  ELSE DigitsValue(Tail(s), 10 * acc + DigitOf[Head(s)])

\* int(s): surrounding whitespace ignored, an optional sign, then one or more
\* decimal digits; anything else raises ValueError (ok = FALSE)
int(s) ==
  LET t == strip(s)
      signed == t # << >> /\ Head(t) \in {"+", "-"}
      body == IF signed THEN Tail(t) ELSE t
      wellformed == body # << >> /\ \A i \in 1..Len(body) : body[i] \in DigitSet
  IN IF ~wellformed THEN [ok |-> FALSE, val |-> 0]
     ELSE [ok |-> TRUE,
           val |-> IF signed /\ Head(t) = "-" THEN 0 - DigitsValue(body, 0)
                   ELSE DigitsValue(body, 0)]

\* f"player{player_num}"
RECURSIVE str_int(_)
str_int(n) ==
  IF n < 10 THEN <<DIGITS[n + 1]>>
  ELSE str_int(n \div 10) \o <<DIGITS[(n % 10) + 1]>>

player_key(player_num) == PLAYER \o str_int(player_num)

\* ------------------------------------------------------ inputs of calls
\* rank texts handed to deal_card, hit and flip_card: "a", "K", "5" and the
\* text "x", which is no rank
CardTokens == { <<"a">>, <<"K">>, <<"5">>, <<"x">> }
\* target texts: "Dealer", "player" (defaults to player 1), "Player 2"
\* (no such player until a second one is added) and "bob" (no integer)
\* texts that spell the two sentinel labels: "facedown" and "Unknown"
SentinelTokens == { <<"f","a","c","e","d","o","w","n">>,
                    <<"U","n","k","n","o","w","n">> }
ZoneTokens == { <<"D","e","a","l","e","r">>, PLAYER,
                <<"P","l","a","y","e","r"," ","2">>, <<"b","o","b">> }
Thresholds == {17, 21}
\* more target texts: "DEALER", " dealer" (a leading blank), the empty
\* text, "1", "Player1", "2", "0" and "players"
TargetTokens ==
  ZoneTokens \cup
    { <<"D","E","A","L","E","R">>, <<" ","d","e","a","l","e","r">>, << >>,
      <<"1">>, <<"P","l","a","y","e","r","1">>, <<"2">>, <<"0">>,
      <<"p","l","a","y","e","r","s">> }
\* the rank texts dealt to them: "K", and "x", which is no rank
TargetCards == { <<"K">>, <<"x">> }

\* ---------------------------------------- text processing, computed once
\* Every text the calls below normalise is one of these; the tables hold
\* what the str methods above compute for each of them.
CardTexts ==
  CardTokens \cup RankSet \cup {FACEDOWN, UNKNOWN} \cup SentinelTokens
    \cup {strip(upper(t)) : t \in CardTokens}
StripUpperOf == [t \in CardTexts |-> strip(upper(t))] @@ << >>
LowerOfText == [t \in TargetTokens |-> lower(t)] @@ << >>

\* card.upper().strip()
upper_strip(card) ==
  IF card \in CardTexts THEN StripUpperOf[card] ELSE strip(upper(card))

\* to_zone.lower()
lower_text(t) == IF t \in TargetTokens THEN LowerOfText[t] ELSE lower(t)

\* a player number with no default: the empty remainder names no one
player_number_no_default(identifier) ==
  int(strip(replace_with_empty(strip(lower(identifier)), PLAYER)))

\* the text part of get_player_zone: the player number the identifier
\* names, ok = FALSE when int() raises ValueError
player_number(identifier) ==
  LET a == strip(lower(identifier))
      b == strip(replace_with_empty(a, PLAYER))
      c == IF b = << >> THEN <<"1">> ELSE b
  IN int(c)
PlayerNumberOf == [t \in TargetTokens |-> player_number(t)] @@ << >>

\* ------------------------------------------------------------- CardZone
\* a zone's cards after CardZone.__init__: an empty defaultdict
EmptyCards == [k \in {} |-> 0]

\* defaultdict.__getitem__: a missing key is inserted with int() = 0
touch(cards, key) ==
  IF key \in DOMAIN cards THEN cards
  ELSE [k \in DOMAIN cards \cup {key} |-> IF k = key THEN 0 ELSE cards[k]]

\* del self.cards[card]
del(cards, key) == [k \in DOMAIN cards \ {key} |-> cards[k]]

\* the count of a label, 0 when the label is no key (a read that inserts nothing)
Count(cards, key) == IF key \in DOMAIN cards THEN cards[key] ELSE 0

\* CardZone.add_card
add_card(cards, card, count) ==
  LET c == upper_strip(card)
      d == touch(cards, c)
  IN [d EXCEPT ![c] = @ + count]

\* a remove_card that deletes the label outright instead of decrementing it
remove_card_taken_all(cards, c, count) == del(cards, c)

\* the success branch of CardZone.remove_card: decrement, delete at zero
remove_card_taken(cards, c, count) ==
  LET e == [cards EXCEPT ![c] = @ - count]
  IN IF e[c] = 0 THEN del(e, c) ELSE e

\* CardZone.remove_card: the returned bool and the zone's cards afterwards.
\* The test self.cards[card] >= count reads the defaultdict and so inserts
\* a missing key before the comparison.
remove_card(cards, card, count) ==
  LET c == upper_strip(card)
      d == touch(cards, c)
  IN IF d[c] >= count
     THEN [ok |-> TRUE, cards |-> remove_card_taken(d, c, count)]
     ELSE [ok |-> FALSE, cards |-> d]

RECURSIVE SumOver(_, _)
SumOver(cards, keys) ==
  IF keys = {} THEN 0
  ELSE LET k == CHOOSE x \in keys : TRUE
       IN cards[k] + SumOver(cards, keys \ {k})

\* CardZone.total_cards
total_cards(cards) == SumOver(cards, DOMAIN cards)

RECURSIVE Repeat(_, _)
Repeat(card, n) == IF n <= 0 THEN << >> ELSE <<card>> \o Repeat(card, n - 1)

RECURSIVE AllCardsOver(_, _)
AllCardsOver(cards, keys) ==
  IF keys = {} THEN << >>
  ELSE LET k == CHOOSE x \in keys : TRUE
       IN Repeat(k, cards[k]) \o AllCardsOver(cards, keys \ {k})

\* CardZone.get_all_cards: one label per unit count
get_all_cards(cards) == AllCardsOver(cards, DOMAIN cards)

\* CardZone.clear: the returned list and the cards afterwards
clear(cards) == [cards_out |-> get_all_cards(cards), cards |-> EmptyCards]

\* an add_each that adds the first card of the list and drops the others
add_each_first(cards, list) ==
  IF list = << >> THEN cards ELSE add_card(cards, Head(list), 1)

RECURSIVE add_each(_, _)
\* for card in cards: zone.add_card(card)
add_each(cards, list) ==
  IF list = << >> THEN cards
  ELSE add_each(add_card(cards, Head(list), 1), Tail(list))

\* ------------------------------------------------------------ GameState
VARIABLES
  deck,                \* GameState.deck.cards
  dealer_hand,         \* GameState.dealer_hand.cards
  discard,             \* GameState.discard.cards
  face_down,           \* GameState.face_down.cards
  face_down_owners,    \* GameState.face_down_owners
  players,             \* GameState.players: player number -> that zone's cards
  next_player_number,  \* GameState.next_player_number
  ret                  \* what the last call returned (or that it raised)

vars == <<deck, dealer_hand, discard, face_down, face_down_owners, players,
          next_player_number, ret>>

\* the GameState itself, without the record of the last call
state == <<deck, dealer_hand, discard, face_down, face_down_owners, players,
           next_player_number>>

\* ------------------------------------------------ results of the calls
Ret(op, result) ==
  [op |-> op, result |-> result, who |-> << >>, threshold |-> 0,
   greater_count |-> 0, less_count |-> 0, equal_count |-> 0,
   total_available |-> 0, total_in_play |-> 0, total |-> 0]

RECURSIVE add_ranks(_, _)
\* for card in [...]: self.deck.add_card(card, 4)
add_ranks(cards, list) ==
  IF list = << >> THEN cards
  ELSE add_ranks(add_card(cards, Head(list), COPIES), Tail(list))

\* an initialize_deck without its self.deck.clear()
initialize_deck_stale == add_ranks(deck, RANKS)

\* GameState.initialize_deck: the deck's cards afterwards
initialize_deck == add_ranks(clear(deck).cards, RANKS)

\* the ranks the card texts name: only these ever leave the deck
DealtRanks == {upper_strip(t) : t \in CardTokens} \cap RankSet

RECURSIVE Gone(_)
\* cards that have left the deck: per rank, what is missing of its COPIES
Gone(ranks) ==
  IF ranks = {} THEN 0
  ELSE LET r == CHOOSE x \in ranks : TRUE
       IN (COPIES - Count(deck, r)) + Gone(ranks \ {r})

\* the cards out, which MaxOut bounds
Out == Gone(DealtRanks) + Count(face_down, FACEDOWN) + Count(discard, UNKNOWN)

\* the deck at the start of the end game: one king is left
EndgameDeck == (<<"K">> :> 1)

\* the deck is as small as in the end game
DeckIsLow == total_cards(deck) <= total_cards(EndgameDeck)

\* where the model lets a card leave the deck: early in the game while fewer
\* than MaxOut cards are out, and in the end game down to the empty deck
MayTake == Out < MaxOut \/ DeckIsLow

\* where the model lets a face-down unit be dealt
MayFaceDown ==
  \/ Out < MaxOut
  \/ DeckIsLow /\ Count(face_down, FACEDOWN) + Count(discard, UNKNOWN) < MaxOut - 1

\* GameState.__init__ (get_or_create_game_state / load_game_state on first use)
Init ==
  /\ deck = add_ranks(EmptyCards, RANKS)
  /\ dealer_hand = EmptyCards
  /\ discard = EmptyCards
  /\ face_down = EmptyCards
  /\ face_down_owners = EmptyCards
  /\ players = EmptyCards
  /\ next_player_number = 1
  /\ ret = Ret("init", "ok")

\* an add_player that leaves the counter as it is
add_player_same_number ==
  /\ players' = [k \in DOMAIN players \cup {next_player_number} |->
                   IF k = next_player_number THEN EmptyCards ELSE players[k]]
  /\ ret' = Ret("add_player", "ok")
  /\ UNCHANGED <<deck, dealer_hand, discard, face_down, face_down_owners,
                 next_player_number>>

\* GameState.add_player
add_player ==
  /\ players' = [k \in DOMAIN players \cup {next_player_number} |->
                   IF k = next_player_number THEN EmptyCards ELSE players[k]]
  /\ next_player_number' = next_player_number + 1
  /\ ret' = Ret("add_player", "ok")
  /\ UNCHANGED <<deck, dealer_hand, discard, face_down, face_down_owners>>

\* GameState.get_player_zone: (player_num, zone) as found/num, (None, None)
\* as found = FALSE
get_player_zone(identifier) ==
  LET n == IF identifier \in TargetTokens THEN PlayerNumberOf[identifier]
           ELSE player_number(identifier)
  IN IF n.ok /\ n.val \in DOMAIN players
     THEN [found |-> TRUE, num |-> n.val]
     ELSE [found |-> FALSE, num |-> 0]

\* GameState.deal_card: what it returns and the zones it leaves
deal_card_outcome(card, to_zone) ==
  LET c == upper_strip(card)
      r == remove_card(deck, c, 1)
      pz == get_player_zone(to_zone)
  IN IF ~r.ok
     THEN [result |-> "card_not_available", deck |-> r.cards,
           dealer_hand |-> dealer_hand, players |-> players]
     ELSE IF lower_text(to_zone) = DEALER
     THEN [result |-> "ok", deck |-> r.cards,
           dealer_hand |-> add_card(dealer_hand, c, 1), players |-> players]
     ELSE IF pz.found
     THEN [result |-> "ok", deck |-> r.cards, dealer_hand |-> dealer_hand,
           players |-> [players EXCEPT ![pz.num] = add_card(@, c, 1)]]
     ELSE [result |-> "invalid_zone", deck |-> add_card(r.cards, c, 1),
           dealer_hand |-> dealer_hand, players |-> players]

\* GameState.deal_card
deal_card(card, to_zone) ==
  \E o \in {deal_card_outcome(card, to_zone)} :
     /\ o.result = "ok" => MayTake
     /\ deck' = o.deck
     /\ dealer_hand' = o.dealer_hand
     /\ players' = o.players
     /\ ret' = Ret("deal_card", o.result)
     /\ UNCHANGED <<discard, face_down, face_down_owners, next_player_number>>

\* an update that sets the owner's count to 1 (= 1 in place of += 1)
owner_increment_reset(owners, owner_key) ==
  [k \in DOMAIN owners \cup {owner_key} |-> IF k = owner_key THEN 1 ELSE owners[k]]

\* self.face_down_owners[owner_key] += 1, the key created at 0 when missing
owner_increment(owners, owner_key) ==
  LET o == IF owner_key \in DOMAIN owners THEN owners
           ELSE [k \in DOMAIN owners \cup {owner_key} |->
                   IF k = owner_key THEN 0 ELSE owners[k]]
  IN [o EXCEPT ![owner_key] = @ + 1]

\* a flip that forgets the owner's remaining face-down units
owner_decrement_forget(owners, owner_key) == del(owners, owner_key)

\* a flip that keeps the owner's key at 0
owner_decrement_keep(owners, owner_key) == [owners EXCEPT ![owner_key] = @ - 1]

\* self.face_down_owners[owner_key] -= 1, the key deleted at 0
owner_decrement(owners, owner_key) ==
  LET o == [owners EXCEPT ![owner_key] = @ - 1]
  IN IF o[owner_key] = 0 THEN del(o, owner_key) ELSE o

\* GameState.deal_face_down
deal_face_down(to_zone) ==
  LET total_available == total_cards(deck) + total_cards(face_down)
      pz == get_player_zone(to_zone)
      is_dealer == lower_text(to_zone) = DEALER
      owner_key == IF is_dealer THEN DEALER ELSE player_key(pz.num)
  IN /\ (total_available # 0 /\ (is_dealer \/ pz.found)) => MayFaceDown
     /\ IF total_available = 0
        THEN /\ ret' = Ret("deal_face_down", "no_cards_left")
             /\ UNCHANGED <<face_down, face_down_owners>>
        ELSE IF ~is_dealer /\ ~(pz.found /\ pz.num # 0)
        THEN /\ ret' = Ret("deal_face_down", "invalid_zone")
             /\ UNCHANGED <<face_down, face_down_owners>>
        ELSE /\ face_down' = add_card(face_down, FACEDOWN, 1)
             /\ face_down_owners' = owner_increment(face_down_owners, owner_key)
             /\ ret' = Ret("deal_face_down", "ok")
     /\ UNCHANGED <<deck, dealer_hand, discard, players, next_player_number>>

\* GameState.flip_card
flip_card(who, card) ==
  LET c == upper_strip(card)
      is_dealer == lower_text(who) = DEALER
      pz == get_player_zone(who)
      owner_key == IF is_dealer THEN DEALER ELSE player_key(pz.num)
      r == remove_card(deck, c, 1)
  IN /\ IF ~is_dealer /\ ~pz.found
        THEN /\ ret' = Ret("flip_card", "invalid_target")
             /\ UNCHANGED <<deck, dealer_hand, face_down, face_down_owners, players>>
        ELSE IF owner_key \notin DOMAIN face_down_owners
                \/ face_down_owners[owner_key] = 0
        THEN /\ ret' = Ret("flip_card", "no_face_down")
             /\ UNCHANGED <<deck, dealer_hand, face_down, face_down_owners, players>>
        ELSE IF ~r.ok
        THEN /\ deck' = r.cards
             /\ ret' = Ret("flip_card", "card_not_available")
             /\ UNCHANGED <<dealer_hand, face_down, face_down_owners, players>>
        ELSE /\ deck' = r.cards
             /\ face_down' = remove_card(face_down, FACEDOWN, 1).cards
             /\ face_down_owners' = owner_decrement(face_down_owners, owner_key)
             /\ IF is_dealer
                THEN /\ dealer_hand' = add_card(dealer_hand, c, 1)
                     /\ UNCHANGED players
                ELSE /\ players' = [players EXCEPT ![pz.num] = add_card(@, c, 1)]
                     /\ UNCHANGED dealer_hand
             /\ ret' = Ret("flip_card", "ok")
     /\ UNCHANGED <<discard, next_player_number>>

\* a hit that keeps the card it took when the target names no one
hit_outcome_keeps_card(card, who) ==
  LET c == upper_strip(card)
      r == remove_card(deck, c, 1)
      pz == get_player_zone(who)
  IN IF ~r.ok
     THEN [result |-> "card_not_available", deck |-> r.cards,
           dealer_hand |-> dealer_hand, players |-> players]
     ELSE IF lower_text(who) = DEALER
     THEN [result |-> "ok", deck |-> r.cards,
           dealer_hand |-> add_card(dealer_hand, c, 1), players |-> players]
     ELSE IF pz.found
     THEN [result |-> "ok", deck |-> r.cards, dealer_hand |-> dealer_hand,
           players |-> [players EXCEPT ![pz.num] = add_card(@, c, 1)]]
     ELSE [result |-> "invalid_target", deck |-> r.cards,
           dealer_hand |-> dealer_hand, players |-> players]

\* GameState.hit: what it returns and the zones it leaves
hit_outcome(card, who) ==
  LET c == upper_strip(card)
      r == remove_card(deck, c, 1)
      pz == get_player_zone(who)
  IN IF ~r.ok
     THEN [result |-> "card_not_available", deck |-> r.cards,
           dealer_hand |-> dealer_hand, players |-> players]
     ELSE IF lower_text(who) = DEALER
     THEN [result |-> "ok", deck |-> r.cards,
           dealer_hand |-> add_card(dealer_hand, c, 1), players |-> players]
     ELSE IF pz.found
     THEN [result |-> "ok", deck |-> r.cards, dealer_hand |-> dealer_hand,
           players |-> [players EXCEPT ![pz.num] = add_card(@, c, 1)]]
     ELSE [result |-> "invalid_target", deck |-> add_card(r.cards, c, 1),
           dealer_hand |-> dealer_hand, players |-> players]

\* GameState.hit
hit(card, who) ==
  \E o \in {hit_outcome(card, who)} :
     /\ o.result = "ok" => MayTake
     /\ deck' = o.deck
     /\ dealer_hand' = o.dealer_hand
     /\ players' = o.players
     /\ ret' = Ret("hit", o.result)
     /\ UNCHANGED <<discard, face_down, face_down_owners, next_player_number>>

\* a loop that clears the player hands and drops their cards
drain_players_lost(cards, nums) == cards

RECURSIVE drain_players(_, _)
\* the loop of clear_hands over self.players: every hand's cards added to discard
drain_players(cards, nums) ==
  IF nums = {} THEN cards
  ELSE LET n == CHOOSE x \in nums : TRUE
       IN drain_players(add_each(cards, clear(players[n]).cards_out), nums \ {n})

\* a clear_hands that starts the discard pile afresh
clear_hands_fresh_discard ==
  LET after_players == drain_players(EmptyCards, DOMAIN players)
      dealer_cards == clear(dealer_hand)
      after_dealer == add_each(after_players, dealer_cards.cards_out)
      face_down_count == total_cards(face_down)
  IN /\ players' = [n \in DOMAIN players |-> clear(players[n]).cards]
     /\ dealer_hand' = dealer_cards.cards
     /\ face_down' = IF face_down_count > 0 THEN clear(face_down).cards ELSE face_down
     /\ discard' = add_each(after_dealer, Repeat(UNKNOWN, face_down_count))
     /\ face_down_owners' = EmptyCards
     /\ ret' = Ret("clear_hands", "ok")
     /\ UNCHANGED <<deck, next_player_number>>

\* GameState.clear_hands
clear_hands ==
  LET after_players == drain_players(discard, DOMAIN players)
      dealer_cards == clear(dealer_hand)
      after_dealer == add_each(after_players, dealer_cards.cards_out)
      face_down_count == total_cards(face_down)
  IN /\ players' = [n \in DOMAIN players |-> clear(players[n]).cards]
     /\ dealer_hand' = dealer_cards.cards
     /\ face_down' = IF face_down_count > 0 THEN clear(face_down).cards ELSE face_down
     /\ discard' = add_each(after_dealer, Repeat(UNKNOWN, face_down_count))
     /\ face_down_owners' = EmptyCards
     /\ ret' = Ret("clear_hands", "ok")
     /\ UNCHANGED <<deck, next_player_number>>

\* a shuffle that removes the players and keeps the counter
shuffle_keeps_counter ==
  /\ dealer_hand' = clear(dealer_hand).cards
  /\ discard' = clear(discard).cards
  /\ face_down' = clear(face_down).cards
  /\ face_down_owners' = EmptyCards
  /\ players' = EmptyCards
  /\ deck' = initialize_deck
  /\ ret' = Ret("shuffle", "ok")
  /\ UNCHANGED next_player_number

\* GameState.shuffle
shuffle ==
  /\ dealer_hand' = clear(dealer_hand).cards
  /\ discard' = clear(discard).cards
  /\ face_down' = clear(face_down).cards
  /\ face_down_owners' = EmptyCards
  /\ players' = EmptyCards
  /\ next_player_number' = 1
  /\ deck' = initialize_deck
  /\ ret' = Ret("shuffle", "ok")

RECURSIVE SumHands(_)
SumHands(nums) ==
  IF nums = {} THEN 0
  ELSE LET n == CHOOSE x \in nums : TRUE
       IN total_cards(players[n]) + SumHands(nums \ {n})

\* total_in_play of get_status
total_in_play ==
  total_cards(deck) + total_cards(face_down) + total_cards(dealer_hand)
    + total_cards(discard) + SumHands(DOMAIN players)

\* a __str__ that reads the count of each of the 13 ranks
str_reads_all_ranks(cards) ==
  [k \in DOMAIN cards \cup RankSet |-> IF k \in DOMAIN cards THEN cards[k] ELSE 0]

RECURSIVE str_reads_over(_, _)
str_reads_over(cards, keys) ==
  IF keys = {} THEN cards
  ELSE LET k == CHOOSE x \in keys : TRUE
       IN str_reads_over(touch(cards, k), keys \ {k})

\* CardZone.__str__: the zone's cards after the reads self.cards[card] for
\* card in sorted(self.cards.keys())
str_reads(cards) == str_reads_over(cards, DOMAIN cards)

\* GameState.get_status: reads the zones and builds the text; the deck, the
\* player hands, the dealer hand and the discard pile are formatted by
\* CardZone.__str__
get_status ==
  /\ ret' = [Ret("get_status", "ok") EXCEPT !.total_in_play = total_in_play]
  /\ deck' = str_reads(deck)
  /\ players' = [n \in DOMAIN players |-> str_reads(players[n])]
  /\ dealer_hand' = str_reads(dealer_hand)
  /\ discard' = str_reads(discard)
  /\ UNCHANGED <<face_down, face_down_owners, next_player_number>>

\* the value one card adds in calculate_hand_total; int(card) may raise
card_value_of(card) ==
  LET c == upper_strip(card)
  IN IF c \in { <<"J">>, <<"Q">>, <<"K">> } THEN [ok |-> TRUE, val |-> 10, ace |-> 0]
     ELSE IF c = <<"A">> THEN [ok |-> TRUE, val |-> 11, ace |-> 1]
     ELSE [ok |-> int(c).ok, val |-> int(c).val, ace |-> 0]
CardValueOf == [t \in CardTexts |-> card_value_of(t)] @@ << >>
card_value(card) ==
  IF card \in CardTexts THEN CardValueOf[card] ELSE card_value_of(card)

RECURSIVE sum_cards(_, _, _)
\* the for loop of calculate_hand_total
sum_cards(cards, total, aces) ==
  IF cards = << >> THEN [ok |-> TRUE, total |-> total, aces |-> aces]
  ELSE LET v == card_value(Head(cards))
       IN IF ~v.ok THEN [ok |-> FALSE, total |-> total, aces |-> aces]
          ELSE sum_cards(Tail(cards), total + v.val, aces + v.ace)

\* an adjustment that demotes one ace at most (if in place of while)
adjust_aces_once(total, aces) ==
  IF total > 21 /\ aces > 0 THEN total - 10 ELSE total

RECURSIVE adjust_aces(_, _)
\* while total > 21 and aces > 0
adjust_aces(total, aces) ==
  IF total > 21 /\ aces > 0 THEN adjust_aces(total - 10, aces - 1) ELSE total

\* GameState.calculate_hand_total: ok = FALSE when int(card) raises ValueError
calculate_hand_total(cards) ==
  LET s == sum_cards(cards, 0, 0)
  IN IF s.ok THEN [ok |-> TRUE, total |-> adjust_aces(s.total, s.aces)]
     ELSE [ok |-> FALSE, total |-> 0]

\* GameState.get_hand_cards
get_hand_cards(who) ==
  IF lower_text(who) = DEALER THEN get_all_cards(dealer_hand)
  ELSE IF get_player_zone(who).found
       THEN get_all_cards(players[get_player_zone(who).num])
       ELSE << >>

\* one bucket of calculate_probability_after_hit: the counts of the deck's
\* keys whose new_total compares to the threshold as `cmp` (1, -1, 0)
bucket(new_total, available_cards, threshold, cmp) ==
  LET side(card) == IF new_total[card].total > threshold THEN 1
                    ELSE IF new_total[card].total < threshold THEN -1 ELSE 0
      keys == {card \in DOMAIN available_cards : side(card) = cmp}
  IN SumOver(available_cards, keys)

\* GameState.calculate_probability_after_hit
calculate_probability_after_hit(who, threshold) ==
  LET current_hand == get_hand_cards(who)
      current_total == calculate_hand_total(current_hand)
      available_cards == deck
      total_available == total_cards(available_cards)
      new_total == [card \in DOMAIN available_cards |->
                      calculate_hand_total(current_hand \o <<card>>)]
      raises == \E card \in DOMAIN available_cards : ~new_total[card].ok
      \* a failure text names who at most; the analysis names the threshold too
      called == [Ret("calculate_probability_after_hit", "ok") EXCEPT !.who = who]
  IN /\ ret' = IF current_hand = << >>
               THEN [called EXCEPT !.result = "no_cards_in_hand"]
               ELSE IF ~current_total.ok
               THEN [called EXCEPT !.result = "ValueError"]
               ELSE IF total_available = 0
               THEN [called EXCEPT !.result = "no_cards_left"]
               ELSE IF raises
               THEN [called EXCEPT !.result = "ValueError"]
               ELSE [called EXCEPT
                       !.threshold = threshold,
                       !.greater_count = bucket(new_total, available_cards, threshold, 1),
                       !.less_count = bucket(new_total, available_cards, threshold, -1),
                       !.equal_count = bucket(new_total, available_cards, threshold, 0),
                       !.total_available = total_available]
     /\ UNCHANGED state

\* one call of the front end on the process-wide GameState, add_player aside
Calls ==
  \/ \E card \in CardTokens, to_zone \in ZoneTokens : deal_card(card, to_zone)
  \/ \E to_zone \in ZoneTokens : deal_face_down(to_zone)
  \/ \E who \in ZoneTokens, card \in CardTokens : flip_card(who, card)
  \/ \E card \in CardTokens, who \in ZoneTokens : hit(card, who)
  \/ clear_hands
  \/ shuffle
  \/ get_status
  \/ \E who \in ZoneTokens, threshold \in Thresholds :
       calculate_probability_after_hit(who, threshold)

\* a table of at most MaxPlayers players
Next ==
  \/ next_player_number <= MaxPlayers /\ add_player
  \/ Calls

Spec == Init /\ [][Next]_vars

\* a table with one more seat, so that a second player joins the first
NextSeats ==
  \/ next_player_number <= MaxPlayers + 1 /\ add_player
  \/ Calls

SpecSeats == Init /\ [][NextSeats]_vars

\* The end game: the state the fresh game reaches when every card but one
\* ace and one king is dealt to the dealer (50 deal_card calls), clear_hands
\* moves the dealer's hand to the discard pile, a player is added and is
\* dealt the ace.
InitEndgame ==
  /\ deck = EndgameDeck
  /\ dealer_hand = EmptyCards
  /\ discard = [r \in RankSet |-> IF r \in {<<"A">>, <<"K">>} THEN COPIES - 1 ELSE COPIES]
  /\ face_down = EmptyCards
  /\ face_down_owners = EmptyCards
  /\ players = (1 :> (<<"A">> :> 1))
  /\ next_player_number = 2
  /\ ret = Ret("deal_card", "ok")

\* the same calls from the end game on; shuffle leads back to the fresh deck,
\* so every state of Spec but its first is a state of SpecEndgame as well
SpecEndgame == InitEndgame /\ [][Next]_vars

\* the same calls, and the calls that name a sentinel label as the card
NextLabels ==
  \/ Next
  \/ \E card \in SentinelTokens, to_zone \in ZoneTokens : deal_card(card, to_zone)
  \/ \E card \in SentinelTokens, who \in ZoneTokens : hit(card, who)
  \/ \E who \in ZoneTokens, card \in SentinelTokens : flip_card(who, card)

SpecLabels == Init /\ [][NextLabels]_vars

\* a table with one more seat where the calls that take a target are made
\* with every target text
NextTargets ==
  \/ next_player_number <= MaxPlayers + 1 /\ add_player
  \/ \E card \in TargetCards, to_zone \in TargetTokens : deal_card(card, to_zone)
  \/ \E to_zone \in TargetTokens : deal_face_down(to_zone)
  \/ \E who \in TargetTokens, card \in TargetCards : flip_card(who, card)
  \/ \E card \in TargetCards, who \in TargetTokens : hit(card, who)
  \/ clear_hands
  \/ shuffle

SpecTargets == Init /\ [][NextTargets]_vars

\* ------------------------------------------------ to_dict and from_dict
\* A key of a Python dict is an int or a str: [type, val].
int_key(n) == [type |-> "int", val |-> n]
str_key(t) == [type |-> "str", val |-> t]

\* int(num) on a dict key: the int itself, or the str parsed; ok = FALSE
\* when int() raises ValueError
key_int(k) == IF k.type = "int" THEN [ok |-> TRUE, val |-> k.val] ELSE int(k.val)

\* f"Player {player_num} Hand"
player_zone_name(num) ==
  <<"P","l","a","y","e","r"," ">> \o str_int(num) \o <<" ","H","a","n","d">>

\* CardZone.to_dict: the name and a plain dict of the cards, zero counts
\* included
zone_to_dict(name, cards) == [name |-> name, cards |-> cards]

\* CardZone.from_dict: the cards of the zone it builds
zone_from_dict(data) == data.cards

\* GameState.to_dict
to_dict ==
  [deck |-> zone_to_dict(<<"D","e","c","k">>, deck),
   dealer_hand |-> zone_to_dict(<<"D","e","a","l","e","r"," ","H","a","n","d">>, dealer_hand),
   discard |-> zone_to_dict(<<"D","i","s","c","a","r","d"," ","P","i","l","e">>, discard),
   face_down |-> zone_to_dict(<<"F","a","c","e"," ","D","o","w","n">>, face_down),
   face_down_owners |-> face_down_owners,
   players |-> [k \in {int_key(n) : n \in DOMAIN players} |->
                  zone_to_dict(player_zone_name(k.val), players[k.val])],
   next_player_number |-> next_player_number]

\* json.loads(json.dumps(data)): the int keys of a dict come back as str
\* keys, the str keys and the int values as they were
json_dumps_loads(data) ==
  [data EXCEPT !.players =
     [k \in {str_key(str_int(j.val)) : j \in DOMAIN data.players} |->
        data.players[int_key(int(k.val).val)]]]

\* a from_dict that leaves the deck as GameState() made it
from_dict_fresh_deck(data) ==
  LET nums == {key_int(k) : k \in DOMAIN data.players}
  IN [ok |-> \A n \in nums : n.ok,
      deck |-> add_ranks(EmptyCards, RANKS),
      dealer_hand |-> zone_from_dict(data.dealer_hand),
      discard |-> zone_from_dict(data.discard),
      face_down |-> zone_from_dict(data.face_down),
      face_down_owners |-> data.face_down_owners,
      players |-> [n \in {x.val : x \in nums} |->
                     zone_from_dict(
                       data.players[CHOOSE k \in DOMAIN data.players : key_int(k).val = n])],
      next_player_number |-> data.next_player_number]

\* GameState.from_dict: the fields of the GameState it builds; ok = FALSE
\* when int(num) raises ValueError
from_dict(data) ==
  LET nums == {key_int(k) : k \in DOMAIN data.players}
  IN [ok |-> \A n \in nums : n.ok,
      deck |-> zone_from_dict(data.deck),
      dealer_hand |-> zone_from_dict(data.dealer_hand),
      discard |-> zone_from_dict(data.discard),
      face_down |-> zone_from_dict(data.face_down),
      face_down_owners |-> data.face_down_owners,
      players |-> [n \in {x.val : x \in nums} |->
                     zone_from_dict(
                       data.players[CHOOSE k \in DOMAIN data.players : key_int(k).val = n])],
      next_player_number |-> data.next_player_number]

\* GameState.from_dict(state.to_dict()), directly or, as save_game_state and
\* load_game_state do across a restart of the process, through JSON text;
\* load_game_state starts a new GameState when from_dict raises
round_trip(via_json) ==
  LET data == IF via_json THEN json_dumps_loads(to_dict) ELSE to_dict
      loaded == from_dict(data)
  IN IF loaded.ok
     THEN /\ deck' = loaded.deck
          /\ dealer_hand' = loaded.dealer_hand
          /\ discard' = loaded.discard
          /\ face_down' = loaded.face_down
          /\ face_down_owners' = loaded.face_down_owners
          /\ players' = loaded.players
          /\ next_player_number' = loaded.next_player_number
          /\ ret' = Ret("from_dict", "ok")
     ELSE /\ deck' = add_ranks(EmptyCards, RANKS)
          /\ dealer_hand' = EmptyCards
          /\ discard' = EmptyCards
          /\ face_down' = EmptyCards
          /\ face_down_owners' = EmptyCards
          /\ players' = EmptyCards
          /\ next_player_number' = 1
          /\ ret' = Ret("from_dict", "ValueError")

\* the calls of the front end and the reload of the saved state
NextReload ==
  \/ Next
  \/ \E via_json \in BOOLEAN : round_trip(via_json)

SpecReload == Init /\ [][NextReload]_vars

\* ------------------------------------------- calculate_hand_total alone
RECURSIVE SeqsUpTo(_)
\* the lists of at most n ranks
SeqsUpTo(n) ==
  IF n = 0 THEN { << >> }
  ELSE LET shorter == SeqsUpTo(n - 1)
       IN shorter \cup {<<r>> \o q : r \in RankSet, q \in {x \in shorter : Len(x) = n - 1}}

\* the hands of at most n cards, as the cards of a zone
Hands(n) == {add_each(EmptyCards, q) : q \in SeqsUpTo(n)}

RECURSIVE remove_each(_, _)
\* for card in cards: zone.remove_card(card)
remove_each(cards, list) ==
  IF list = << >> THEN cards
  ELSE remove_each(remove_card(cards, Head(list), 1).cards, Tail(list))

\* the fresh game after the cards of one hand were dealt to the dealer
InitHand ==
  /\ dealer_hand \in Hands(MaxHand)
  /\ deck = remove_each(add_ranks(EmptyCards, RANKS), get_all_cards(dealer_hand))
  /\ discard = EmptyCards
  /\ face_down = EmptyCards
  /\ face_down_owners = EmptyCards
  /\ players = EmptyCards
  /\ next_player_number = 1
  /\ ret = IF dealer_hand = EmptyCards THEN Ret("init", "ok") ELSE Ret("deal_card", "ok")

\* self.calculate_hand_total(self.get_hand_cards("dealer"))
hand_total ==
  LET t == calculate_hand_total(get_hand_cards(DEALER))
  IN /\ ret' = IF t.ok
                THEN [Ret("calculate_hand_total", "ok") EXCEPT !.total = t.total]
                ELSE Ret("calculate_hand_total", "ValueError")
     /\ UNCHANGED state

SpecHand == InitHand /\ [][hand_total]_vars

\* ------------------------------------------------------------- properties
\* the number of cards of one deck, as get_status prints it
DECK_SIZE == 52

AllZones ==
  {deck, dealer_hand, discard, face_down} \cup {players[n] : n \in DOMAIN players}

\* the owner key, and whether the target resolves, as deal_face_down and
\* flip_card compute them
Resolves(who) == lower_text(who) = DEALER \/ get_player_zone(who).found
OwnerKeyOf(who) ==
  IF lower_text(who) = DEALER THEN DEALER ELSE player_key(get_player_zone(who).num)

\* two mappings hold the same count of every label but k
SameBut(f, g, k) ==
  \A x \in (DOMAIN f \cup DOMAIN g) \ {k} : Count(f, x) = Count(g, x)

\* C1: Conservation: after any sequence of calls from a fresh GameState the
\* deck, the dealer hand, the discard pile, the face-down zone and all the
\* player hands hold 52 cards together.
C1_Conservation == total_in_play = DECK_SIZE

\* C2: Atomicity on failure: whenever deal_card, hit or flip_card returns a
\* failure, the full state after the call equals the state before it (every
\* zone's mapping with its key set, face_down_owners, players and
\* next_player_number).
C2_AtomicOnFailure ==
  [][(ret'.op \in {"deal_card", "hit", "flip_card"} /\ ret'.result # "ok")
       => state' = state]_vars

\* C3: No core operation raises: every call returns a result value and none
\* terminates with an exception.
C3_NoRaise == ret.result # "ValueError"

\* C4: Face-down ledger: in every reachable state the values of
\* face_down_owners sum to face_down.total_cards().
C4_Ledger ==
  SumOver(face_down_owners, DOMAIN face_down_owners) = total_cards(face_down)

\* a flip has just revealed one of several face-down units, so that the
\* ledger and the zone both still hold some
C4_Witness ==
  /\ ret.op = "flip_card" /\ ret.result = "ok"
  /\ total_cards(face_down) >= 1
  /\ face_down_owners # EmptyCards

\* C5: Card Zone key invariant: no zone holds a mapping entry whose count is
\* 0, also after a remove_card that reports failure.
C5_NoZeroEntries == \A zone \in AllZones : \A k \in DOMAIN zone : zone[k] > 0

\* C6: Shuffle reset: after shuffle() the deck holds exactly 4 of each of the
\* 13 ranks (52 cards, no other keys), the dealer hand, the discard pile and
\* the face-down zone are empty, face_down_owners and the player mapping are
\* empty and next_player_number is 1.
C6_ShuffleReset ==
  ret.op = "shuffle" =>
    /\ DOMAIN deck = RankSet
    /\ \A r \in RankSet : deck[r] = COPIES
    /\ total_cards(deck) = DECK_SIZE
    /\ dealer_hand = EmptyCards /\ discard = EmptyCards /\ face_down = EmptyCards
    /\ face_down_owners = EmptyCards
    /\ players = EmptyCards
    /\ next_player_number = 1

\* shuffle has just returned
C6_Witness == ret.op = "shuffle" /\ ret.result = "ok" /\ total_cards(deck) = DECK_SIZE

\* C7: Flip effect: where the resolved owner has an outstanding face-down
\* card and the deck holds a card of rank r, flip(owner, r) takes one
\* FACEDOWN from face_down, one from face_down_owners[owner] (the key deleted
\* at zero), one r from the deck, adds one r to the owner's hand and leaves
\* every other zone and counter unchanged.
C7_FlipEffect ==
  [][ret'.op = "flip_card" =>
      \A who \in ZoneTokens, card \in CardTokens :
        LET r == upper_strip(card)
            key == OwnerKeyOf(who)
            dealer == lower_text(who) = DEALER
            num == get_player_zone(who).num
        IN (/\ Resolves(who)
            /\ Count(face_down_owners, key) >= 1
            /\ Count(deck, r) >= 1
            /\ flip_card(who, card))
           => /\ ret'.result = "ok"
              /\ Count(face_down', FACEDOWN) = Count(face_down, FACEDOWN) - 1
              /\ SameBut(face_down', face_down, FACEDOWN)
              /\ Count(face_down_owners', key) = Count(face_down_owners, key) - 1
              /\ Count(face_down_owners', key) = 0 => key \notin DOMAIN face_down_owners'
              /\ SameBut(face_down_owners', face_down_owners, key)
              /\ Count(deck', r) = Count(deck, r) - 1
              /\ SameBut(deck', deck, r)
              /\ IF dealer
                 THEN /\ Count(dealer_hand', r) = Count(dealer_hand, r) + 1
                      /\ SameBut(dealer_hand', dealer_hand, r)
                      /\ players' = players
                 ELSE /\ Count(players'[num], r) = Count(players[num], r) + 1
                      /\ SameBut(players'[num], players[num], r)
                      /\ DOMAIN players' = DOMAIN players
                      /\ \A n \in DOMAIN players \ {num} : players'[n] = players[n]
                      /\ dealer_hand' = dealer_hand
              /\ discard' = discard
              /\ next_player_number' = next_player_number]_vars

\* deal_face_down("Dealer") and flip("Dealer", "5") on the fresh state: the
\* dealer holds the 5 and face_down_owners has no "dealer" key
C7_Witness ==
  /\ ret.op = "flip_card" /\ ret.result = "ok"
  /\ dealer_hand = (<<"5">> :> 1)
  /\ DEALER \notin DOMAIN face_down_owners
  /\ face_down = EmptyCards
  /\ Count(deck, <<"5">>) = COPIES - 1
  /\ discard = EmptyCards

\* C8: Deal effect: where the deck holds a card of rank r and the target
\* resolves to the dealer or an existing player, deal(r, target) takes
\* exactly one r from the deck, adds exactly one r to the target zone and
\* leaves all other zones, face_down_owners, the player key set and
\* next_player_number unchanged.
C8_DealEffect ==
  [][ret'.op = "deal_card" =>
      \A card \in CardTokens, to_zone \in ZoneTokens :
        LET r == upper_strip(card)
            dealer == lower_text(to_zone) = DEALER
            num == get_player_zone(to_zone).num
        IN (/\ Resolves(to_zone)
            /\ Count(deck, r) >= 1
            /\ deal_card(card, to_zone))
           => /\ ret'.result = "ok"
              /\ Count(deck', r) = Count(deck, r) - 1
              /\ SameBut(deck', deck, r)
              /\ IF dealer
                 THEN /\ Count(dealer_hand', r) = Count(dealer_hand, r) + 1
                      /\ SameBut(dealer_hand', dealer_hand, r)
                      /\ players' = players
                 ELSE /\ Count(players'[num], r) = Count(players[num], r) + 1
                      /\ SameBut(players'[num], players[num], r)
                      /\ DOMAIN players' = DOMAIN players
                      /\ \A n \in DOMAIN players \ {num} : players'[n] = players[n]
                      /\ dealer_hand' = dealer_hand
              /\ discard' = discard
              /\ face_down' = face_down
              /\ face_down_owners' = face_down_owners
              /\ next_player_number' = next_player_number]_vars

\* add_player(), deal("A", "Player 1"), deal("K", "Dealer") on the fresh
\* state: 50 cards in the deck, Player 1 holds [A], the dealer holds [K]
C8_Witness ==
  /\ ret.op = "deal_card" /\ ret.result = "ok"
  /\ total_cards(deck) = DECK_SIZE - 2
  /\ DOMAIN players = {1}
  /\ players[1] = (<<"A">> :> 1)
  /\ dealer_hand = (<<"K">> :> 1)

\* the probability query has just been called with a non-empty hand and a
\* deck that holds a card
ProbabilityCalled ==
  /\ ret.op = "calculate_probability_after_hit"
  /\ get_hand_cards(ret.who) # << >>
  /\ total_cards(deck) >= 1

\* C9: Probability buckets partition the deck: whenever the query is called
\* with a non-empty hand and a deck with at least one card, greater_count +
\* less_count + equal_count equals deck.total_cards().
C9_BucketsPartition ==
  ProbabilityCalled =>
    /\ ret.result = "ok"
    /\ ret.greater_count + ret.less_count + ret.equal_count = total_cards(deck)

\* the cards of the deck, with multiplicity, whose rank gives the hand a
\* total that compares to the threshold as cmp (1 greater, -1 less, 0 equal)
CardsThatGive(hand, threshold, cmp) ==
  LET gives(card) ==
        LET t == calculate_hand_total(hand \o <<card>>).total
        IN IF cmp = 1 THEN t > threshold
           ELSE IF cmp = -1 THEN t < threshold ELSE t = threshold
  IN Len(SelectSeq(get_all_cards(deck), gives))

\* C10: Probability bucket classification: for a resolved non-empty hand H,
\* threshold t and non-empty deck, each bucket count is the number of cards
\* of the deck whose rank r makes hand_total(H + [r]) greater than, less
\* than, equal to t.
C10_BucketClassification ==
  ProbabilityCalled =>
    /\ ret.result = "ok"
    /\ ret.greater_count = CardsThatGive(get_hand_cards(ret.who), ret.threshold, 1)
    /\ ret.less_count = CardsThatGive(get_hand_cards(ret.who), ret.threshold, -1)
    /\ ret.equal_count = CardsThatGive(get_hand_cards(ret.who), ret.threshold, 0)

\* What remains of C9 and C10 where the query returns its analysis: the
\* buckets partition the deck and each holds the cards its comparison names.
ReturnedAnalysisIsRight ==
  (ProbabilityCalled /\ ret.result = "ok") =>
    /\ ret.greater_count + ret.less_count + ret.equal_count = total_cards(deck)
    /\ ret.total_available = total_cards(deck)
    /\ ret.greater_count = CardsThatGive(get_hand_cards(ret.who), ret.threshold, 1)
    /\ ret.less_count = CardsThatGive(get_hand_cards(ret.who), ret.threshold, -1)
    /\ ret.equal_count = CardsThatGive(get_hand_cards(ret.who), ret.threshold, 0)

\* the query fails with a hand and a deck to work on only by raising
QueryFailsOnlyByRaising ==
  (ProbabilityCalled /\ ret.result # "ok") => ret.result = "ValueError"

\* a hand of total 11 against the threshold 21: the ten-valued cards of the
\* deck, and only they, are in the equal bucket
ElevenAgainstTwentyOne ==
  /\ ret.op = "calculate_probability_after_hit" /\ ret.result = "ok"
  /\ ret.threshold = 21
  /\ calculate_hand_total(get_hand_cards(ret.who)).total = 11
  /\ ret.equal_count >= 1
  /\ ret.equal_count =
       Count(deck, <<"1","0">>) + Count(deck, <<"J">>) + Count(deck, <<"Q">>)
         + Count(deck, <<"K">>)

\* the totals a hand can be given: every card but the aces at its value
\* (J, Q, K as 10, numerals at face value), each ace as 1 or as 11
TotalsOf(hand) ==
  LET value(r) == IF r \in { <<"J">>, <<"Q">>, <<"K">> } THEN 10
                  ELSE IndexIn(RANKS, r) + 1
      others == [r \in DOMAIN hand \ { <<"A">> } |-> value(r) * hand[r]]
      base == SumOver(others, DOMAIN others)
      aces == Count(hand, <<"A">>)
  IN {base + (aces - k) + 11 * k : k \in 0..aces}

\* the largest total of at most 21, or the smallest total when all exceed 21
BestTotal(hand) ==
  LET totals == TotalsOf(hand)
      fit == {t \in totals : t <= 21}
  IN IF fit # {} THEN CHOOSE t \in fit : \A u \in fit : u <= t
     ELSE CHOOSE t \in totals : \A u \in totals : t <= u

\* C11: Hand totaling: for every hand of rank labels calculate_hand_total
\* returns the largest total not exceeding 21 obtainable by valuing each ace
\* as 1 or 11 (J, Q, K as 10, numerals at face value) when such a total
\* exists, and otherwise the total with every ace valued 1; [A,A,9] gives
\* 21, [K,Q] gives 20, [A,9,5] gives 15 and [10,10,5] gives 25.
C11_HandTotal ==
  ret.op = "calculate_hand_total" =>
    /\ ret.result = "ok"
    /\ ret.total = BestTotal(dealer_hand)
    /\ dealer_hand = (<<"A">> :> 2 @@ <<"9">> :> 1) => ret.total = 21
    /\ dealer_hand = (<<"K">> :> 1 @@ <<"Q">> :> 1) => ret.total = 20
    /\ dealer_hand = (<<"A">> :> 1 @@ <<"9">> :> 1 @@ <<"5">> :> 1) => ret.total = 15
    /\ dealer_hand = (<<"1","0">> :> 2 @@ <<"5">> :> 1) => ret.total = 25

\* the total of [A, A, K] was computed: both aces are valued 1
C11_Witness ==
  /\ ret.op = "calculate_hand_total"
  /\ dealer_hand = (<<"A">> :> 2 @@ <<"K">> :> 1)
  /\ ret.total = 12

\* C12: Serialization round-trip: for every reachable GameState s,
\* GameState.from_dict(s.to_dict()) equals s in the deck, the dealer hand,
\* the discard pile, the face-down zone, face_down_owners, the mapping from
\* (integer) player numbers to hands, and next_player_number.
C12_RoundTrip ==
  [][ret'.op = "from_dict" =>
       /\ ret'.result = "ok"
       /\ deck' = deck /\ dealer_hand' = dealer_hand /\ discard' = discard
       /\ face_down' = face_down /\ face_down_owners' = face_down_owners
       /\ players' = players
       /\ \A n \in DOMAIN players' : n \in Nat
       /\ next_player_number' = next_player_number]_vars

\* a state with a player holding a card, a face-down unit and its owner,
\* and fewer than 52 cards in the deck has just been rebuilt from its dict
C12_Witness ==
  /\ ret.op = "from_dict"
  /\ players # EmptyCards /\ \E n \in DOMAIN players : players[n] # EmptyCards
  /\ face_down_owners # EmptyCards
  /\ total_cards(deck) < DECK_SIZE

RECURSIVE HeldByPlayers(_, _)
\* the cards of label k in the hands of the players nums
HeldByPlayers(k, nums) ==
  IF nums = {} THEN 0
  ELSE LET n == CHOOSE x \in nums : TRUE
       IN Count(players[n], k) + HeldByPlayers(k, nums \ {n})

\* C13: Clear hands: after clear_hands() every player hand, the dealer hand
\* and the face-down zone are empty and face_down_owners is empty; discard
\* has gained, per rank, exactly the cards that were in the player and dealer
\* hands plus one UNKNOWN per former face-down unit; the deck, the set of
\* player numbers and next_player_number are unchanged.
C13_ClearHands ==
  [][ret'.op = "clear_hands" =>
       /\ \A n \in DOMAIN players' : players'[n] = EmptyCards
       /\ dealer_hand' = EmptyCards
       /\ face_down' = EmptyCards
       /\ face_down_owners' = EmptyCards
       /\ \A k \in RankSet \cup {UNKNOWN, FACEDOWN} \cup DOMAIN discard \cup DOMAIN discard' :
            Count(discard', k) =
              Count(discard, k) + Count(dealer_hand, k) + HeldByPlayers(k, DOMAIN players)
                + (IF k = UNKNOWN THEN total_cards(face_down) ELSE 0)
       /\ deck' = deck
       /\ DOMAIN players' = DOMAIN players
       /\ next_player_number' = next_player_number]_vars

\* clear_hands has moved a card of the dealer's hand and one face-down unit
\* to the discard pile
C13_Witness ==
  /\ ret.op = "clear_hands"
  /\ \E r \in RankSet : Count(discard, r) = 1
  /\ Count(discard, UNKNOWN) = 1
  /\ dealer_hand = EmptyCards /\ face_down = EmptyCards
  /\ face_down_owners = EmptyCards

\* clear_hands has added a card to a discard pile that held one before
C13_DiscardGrows ==
  /\ ret.op = "clear_hands"
  /\ \E r \in RankSet : Count(discard, r) = 2

\* the labels a zone's mapping holds
Labels(cards) == DOMAIN cards

\* C14: Sentinel placement: in every reachable state the label FACEDOWN
\* occurs only in the face_down zone (and is the only label there), the
\* label UNKNOWN occurs only in discard, and the dealer hand and every
\* player hand contain only labels from the 13 ranks.
C14_SentinelPlacement ==
  /\ FACEDOWN \notin Labels(deck) \cup Labels(dealer_hand) \cup Labels(discard)
  /\ \A n \in DOMAIN players : FACEDOWN \notin Labels(players[n])
  /\ Labels(face_down) \subseteq {FACEDOWN}
  /\ UNKNOWN \notin Labels(deck) \cup Labels(dealer_hand) \cup Labels(face_down)
  /\ \A n \in DOMAIN players : UNKNOWN \notin Labels(players[n])
  /\ Labels(dealer_hand) \subseteq RankSet
  /\ \A n \in DOMAIN players : Labels(players[n]) \subseteq RankSet

\* the labels a zone holds at least one card of
Held(cards) == {k \in DOMAIN cards : cards[k] > 0}

\* What remains of C14 for the labels that count a card: no card is
\* labelled FACEDOWN outside face_down or UNKNOWN outside discard, and the
\* hands hold cards of the 13 ranks only.
SentinelCardsArePlaced ==
  /\ FACEDOWN \notin Held(deck) \cup Held(dealer_hand) \cup Held(discard)
  /\ Held(face_down) \subseteq {FACEDOWN}
  /\ UNKNOWN \notin Held(deck) \cup Held(dealer_hand) \cup Held(face_down)
  /\ Held(dealer_hand) \subseteq RankSet
  /\ \A n \in DOMAIN players : Held(players[n]) \subseteq RankSet
  /\ Held(discard) \subseteq RankSet \cup {UNKNOWN}

\* C15: Player numbering: add_player always succeeds, assigns the current
\* next_player_number to a new empty hand and increments the counter by one;
\* between two shuffles next_player_number never decreases, no other
\* operation changes it, and no player number is assigned by two different
\* add_player calls (the number assigned is held by no player, and a player
\* keeps the number until the next shuffle).
C15_PlayerNumbering ==
  [][/\ ret'.op = "add_player" =>
          /\ ret'.result = "ok"
          /\ next_player_number \notin DOMAIN players
          /\ \A n \in DOMAIN players : n < next_player_number
          /\ DOMAIN players' = DOMAIN players \cup {next_player_number}
          /\ players'[next_player_number] = EmptyCards
          /\ \A n \in DOMAIN players : players'[n] = players[n]
          /\ next_player_number' = next_player_number + 1
     /\ ret'.op \notin {"add_player", "shuffle"} =>
          next_player_number' = next_player_number
     /\ ret'.op # "shuffle" =>
          /\ next_player_number' >= next_player_number
          /\ DOMAIN players \subseteq DOMAIN players']_vars

\* a second player has just joined the first, who holds a card
C15_Witness ==
  /\ ret.op = "add_player"
  /\ DOMAIN players = {1, 2}
  /\ players[1] # EmptyCards /\ players[2] = EmptyCards
  /\ next_player_number = 3

\* C16: Read-only queries: get_status and calculate_probability_after_hit,
\* whether they succeed or fail, leave the full GameState unchanged (every
\* zone's mapping with its key set, face_down_owners, players and
\* next_player_number).
C16_ReadOnlyQueries ==
  [][ret'.op \in {"get_status", "calculate_probability_after_hit"} =>
       /\ deck' = deck /\ DOMAIN deck' = DOMAIN deck
       /\ dealer_hand' = dealer_hand
       /\ discard' = discard
       /\ face_down' = face_down
       /\ face_down_owners' = face_down_owners
       /\ players' = players
       /\ next_player_number' = next_player_number]_vars

\* get_status has just printed a table where a player sits with an empty
\* hand, the dealer holds a card and a face-down unit is out
C16_Witness ==
  /\ ret.op = "get_status"
  /\ \E n \in DOMAIN players : players[n] = EmptyCards
  /\ dealer_hand # EmptyCards
  /\ face_down # EmptyCards

\* the probability query has just failed on an exhausted deck
C16_QueryFailed ==
  /\ ret.op = "calculate_probability_after_hit"
  /\ ret.result = "no_cards_left"

C17_NoCardsLeft ==
  /\ ret.op = "deal_face_down" /\ ret.result = "no_cards_left"
  /\ total_cards(deck) = 0 /\ total_cards(face_down) = 0

\* deal_face_down has just failed on a target that names no one
C17_InvalidZone ==
  /\ ret.op = "deal_face_down" /\ ret.result = "invalid_zone"
  /\ total_cards(deck) > 0

\* C18: Face-down cards are reservations backed by the deck: in every
\* reachable state the number of outstanding face-down cards does not exceed
\* the number of cards in the deck, so that every outstanding face-down card
\* can still be flipped to some rank.
C18_BackedByDeck == total_cards(face_down) <= total_cards(deck)

\* a face-down unit is out and the deck holds no card: flip_card fails for
\* every rank
C18_Unflippable ==
  /\ total_cards(face_down) >= 1
  /\ total_cards(deck) = 0

\* C19: hit is equivalent to deal: for every reachable state, rank label and
\* target token, hit(rank, target) and deal_card(rank, target) applied to
\* equal states both succeed or both fail and produce equal successor
\* states (neither touches the discard pile, the face-down zone,
\* face_down_owners or next_player_number).
C19_HitIsDeal ==
  \A card \in CardTokens, who \in ZoneTokens :
    LET d == deal_card_outcome(card, who)
        h == hit_outcome(card, who)
    IN /\ (h.result = "ok") <=> (d.result = "ok")
       /\ h.deck = d.deck
       /\ h.dealer_hand = d.dealer_hand
       /\ h.players = d.players

\* hit has just returned the king it took from the deck, the target naming
\* no one: the deck holds its 52 cards again
C19_Witness ==
  /\ ret.op = "hit" /\ ret.result = "invalid_target"
  /\ total_cards(deck) = DECK_SIZE
  /\ Count(deck, <<"K">>) = COPIES

\* hit has just taken the last card of the deck for Player 1
C19_LastCard ==
  /\ ret.op = "hit" /\ ret.result = "ok"
  /\ total_cards(deck) = 0
  /\ 1 \in DOMAIN players /\ Count(players[1], <<"K">>) = 1

\* C20: Probability query failure conditions: the query reports a failure
\* result when who resolves to no one or the resolved hand has no cards
\* (EmptyHand), and when the hand is non-empty but the deck holds no card
\* (DeckExhausted); in every other reachable state it returns a distribution.
C20_QueryFailureConditions ==
  ret.op = "calculate_probability_after_hit" =>
    LET hand == get_hand_cards(ret.who)
    IN /\ (~Resolves(ret.who) \/ hand = << >>) => ret.result = "no_cards_in_hand"
       /\ (hand # << >> /\ total_cards(deck) = 0) => ret.result = "no_cards_left"
       /\ (hand # << >> /\ total_cards(deck) > 0) => ret.result = "ok"

\* What remains of C20 where the query does not raise: the two failures are
\* reported exactly in their cases, and a distribution otherwise.
QueryFailuresAreRight ==
  (ret.op = "calculate_probability_after_hit" /\ ret.result # "ValueError") =>
    LET hand == get_hand_cards(ret.who)
    IN /\ ret.result = "no_cards_in_hand" <=> (~Resolves(ret.who) \/ hand = << >>)
       /\ ret.result = "no_cards_left" <=> (hand # << >> /\ total_cards(deck) = 0)
       /\ ret.result = "ok" <=> (hand # << >> /\ total_cards(deck) > 0)

\* the query has just raised with a hand and a deck to work on
QueryRaised ==
  /\ ProbabilityCalled
  /\ ret.result = "ValueError"
  /\ \E k \in DOMAIN deck : deck[k] = 0 /\ k \notin RankSet


\* what the claim has a target text name: the dealer, player num, or no one
Remainder(token) == strip(replace_with_empty(strip(lower(token)), PLAYER))
NamedText ==
  [t \in TargetTokens |->
     [dealer |-> lower(t) = DEALER,
      empty |-> Remainder(t) = << >>,
      number |-> int(Remainder(t))]] @@ << >>
Named(token) ==
  LET n == NamedText[token]
  IN IF n.dealer THEN [kind |-> "dealer", num |-> 0]
     ELSE IF n.empty
     THEN IF 1 \in DOMAIN players THEN [kind |-> "player", num |-> 1]
          ELSE [kind |-> "none", num |-> 0]
     ELSE IF n.number.ok /\ n.number.val \in DOMAIN players
     THEN [kind |-> "player", num |-> n.number.val]
     ELSE [kind |-> "none", num |-> 0]

\* the step puts one card c into the hand of the target and no other hand
GivenTo(target, c) ==
  IF target.kind = "dealer"
  THEN /\ Count(dealer_hand', c) = Count(dealer_hand, c) + 1
       /\ players' = players
  ELSE /\ Count(players'[target.num], c) = Count(players[target.num], c) + 1
       /\ dealer_hand' = dealer_hand
       /\ \A n \in DOMAIN players \ {target.num} : players'[n] = players[n]

\* the step changes the face-down count of the target by d and no other
OwnerCountMoves(target, d) ==
  LET key == IF target.kind = "dealer" THEN DEALER ELSE player_key(target.num)
  IN /\ Count(face_down_owners', key) = Count(face_down_owners, key) + d
     /\ SameBut(face_down_owners', face_down_owners, key)

\* C21: Target resolution: in deal_card, hit, flip_card and deal_face_down,
\* once the call looks at its target, the text "dealer" in any letter case
\* names the dealer; a text that is empty after the word "player" and the
\* surrounding blanks are removed names player 1 if player 1 exists; a text
\* whose remainder is an integer N names player N exactly when N is a key
\* of the player mapping; every other text is reported as an invalid zone
\* or target. The card, or the face-down unit, goes to the one named.
C21_TargetResolution ==
  [][ /\ ret'.op = "deal_card" /\ ret'.result # "card_not_available" =>
           \A card \in TargetCards, to_zone \in TargetTokens :
              deal_card(card, to_zone) =>
                IF Named(to_zone).kind = "none"
                THEN ret'.result = "invalid_zone"
                ELSE ret'.result = "ok" /\ GivenTo(Named(to_zone), upper_strip(card))
      /\ ret'.op = "hit" /\ ret'.result # "card_not_available" =>
           \A card \in TargetCards, who \in TargetTokens :
              hit(card, who) =>
                IF Named(who).kind = "none"
                THEN ret'.result = "invalid_target"
                ELSE ret'.result = "ok" /\ GivenTo(Named(who), upper_strip(card))
      /\ ret'.op = "deal_face_down" /\ ret'.result # "no_cards_left" =>
           \A to_zone \in TargetTokens :
              deal_face_down(to_zone) =>
                IF Named(to_zone).kind = "none"
                THEN ret'.result = "invalid_zone"
                ELSE ret'.result = "ok" /\ OwnerCountMoves(Named(to_zone), 1)
      /\ ret'.op = "flip_card" =>
           \A who \in TargetTokens, card \in TargetCards :
              flip_card(who, card) =>
                /\ Named(who).kind = "none" <=> ret'.result = "invalid_target"
                /\ ret'.result = "ok" =>
                     /\ GivenTo(Named(who), upper_strip(card))
                     /\ OwnerCountMoves(Named(who), -1)
    ]_vars

\* a card was dealt to player 2, the dealer holds a face-down card, and the
\* last call, a flip, named no one
C21_Witness ==
  /\ DOMAIN players = {1, 2}
  /\ Count(players[2], <<"K">>) >= 1
  /\ Count(face_down_owners, DEALER) >= 1
  /\ ret.op = "flip_card"
  /\ ret.result = "invalid_target"


RECURSIVE HeldOf(_, _)
\* the copies of label r in the hands of the players nums
HeldOf(r, nums) ==
  IF nums = {} THEN 0
  ELSE LET n == CHOOSE x \in nums : TRUE
       IN Count(players[n], r) + HeldOf(r, nums \ {n})

\* C22: Per-rank conservation: in every reachable state, for each of the 13
\* ranks r, the copies of r in the deck, the dealer hand, the discard pile
\* and the player hands add up to 4, however many face-down cards are out
\* or were discarded as UNKNOWN.
C22_PerRankConservation ==
  \A r \in RankSet :
     Count(deck, r) + Count(dealer_hand, r) + Count(discard, r)
       + HeldOf(r, DOMAIN players) = 4

\* a face-down card was discarded as UNKNOWN and the last king was then
\* dealt to player 1: the four kings are three in the discard pile, one in
\* the hand and none in the deck
C22_Witness ==
  /\ Count(discard, UNKNOWN) >= 1
  /\ 1 \in DOMAIN players
  /\ Count(players[1], <<"K">>) = 1
  /\ Count(discard, <<"K">>) = 3
  /\ Count(deck, <<"K">>) = 0

\* a face-down card is out while the aces are spread over hands and discard
C22_FaceDownOut ==
  /\ Count(face_down, FACEDOWN) >= 1
  /\ Count(dealer_hand, <<"K">>) = 1
  /\ HeldOf(<<"A">>, DOMAIN players) = 1
  /\ Count(discard, <<"A">>) = 3


\* C23: Player set is contiguous: in every reachable state the keys of the
\* player mapping are exactly 1 .. next_player_number - 1, and every key of
\* face_down_owners is "dealer" or "player<N>" for a player N, with a value
\* of at least 1.
C23_ContiguousPlayers ==
  /\ DOMAIN players = 1..(next_player_number - 1)
  /\ \A k \in DOMAIN face_down_owners :
        /\ k = DEALER \/ \E n \in DOMAIN players : k = PLAYER \o str_int(n)
        /\ face_down_owners[k] >= 1

\* two players are seated; player 2 and the dealer each own a face-down card
C23_Witness ==
  /\ DOMAIN players = {1, 2}
  /\ next_player_number = 3
  /\ DOMAIN face_down_owners = {DEALER, <<"p","l","a","y","e","r","2">>}
  /\ face_down_owners[DEALER] = 1

\* an owner's last face-down card was flipped and the key is gone
C23_KeyDeleted ==
  /\ ret.op = "flip_card" /\ ret.result = "ok"
  /\ DOMAIN players = {1, 2}
  /\ Count(players[2], <<"K">>) = 1
  /\ DOMAIN face_down_owners = {}


\* C24: Cards only flow forward between shuffles: across any call that is
\* not a shuffle, deck.total_cards() does not increase and
\* discard.total_cards() does not decrease; only shuffle returns cards to
\* the deck or empties the discard pile.
C24_CardsFlowForward ==
  [][ret'.op # "shuffle" =>
       /\ deck' # deck => total_cards(deck') <= total_cards(deck)
       /\ discard' # discard => total_cards(discard') >= total_cards(discard)
    ]_vars

\* a hit named no one and put its card back, with cards out of the deck
\* and in the discard pile
C24_Witness ==
  /\ ret.op = "hit" /\ ret.result = "invalid_target"
  /\ total_cards(discard) >= 1
  /\ total_cards(deck) < DECK_SIZE

\* hands were cleared onto a discard pile that held cards already
C24_DiscardKept ==
  /\ ret.op = "clear_hands"
  /\ total_cards(discard) >= 2

====
